---- MODULE Spec2Model ----
(***************************************************************************)
(* A model of universal_exchange_rates.api.ExchangeRateAPI: one client     *)
(* object with its in-memory cache, the upstream JSON service it reads,    *)
(* and a caller that keeps and may mutate the objects the client returns.  *)
(* Every public method is one action (the client is synchronous and        *)
(* single-threaded); the upstream service is part of the state, so that    *)
(* every request of one call is answered by the service as it is then.     *)
(***************************************************************************)
EXTENDS Integers, Sequences, FiniteSets, TLC

VARIABLES
    base_currency,  \* self.base_currency
    _cache,         \* self._cache: (date, base) -> dict of rates
    faults,         \* the upstream URLs that are out of order, and how
    call,           \* the last public call: the method and its arguments
    ret,            \* how that call ended: the value returned or the exception
    reqs,           \* the URLs that call requested, in order
    lookups,        \* the calls of _get_rates_for that call made, in order
    holding,        \* the caller still holds the objects that call returned
    first,          \* (date, base) -> the first dict fetched since the last clear_cache
    fetches,        \* (date, base) -> successful fetches since the last clear_cache
    origin,         \* (date, base) -> its last successful fetch: the method that
                    \* made it and how that call ended, what the two URLs
                    \* answered then, the dict fetched,
                    \* and how many successful fetches there were in all
    nops            \* public calls made so far, clear_cache not counted

vars == <<base_currency, _cache, faults, call, ret, reqs, lookups, holding, first,
          fetches, origin, nops>>

(***************************************************************************)
(* Bounds of the model.                                                    *)
(***************************************************************************)
\* public calls made on the client in one behaviour, clear_cache not counted
MaxOps == 2
\* calendar days the upstream service publishes, counted from FirstDay
NumDays == 3

(***************************************************************************)
(* Python values.                                                          *)
(***************************************************************************)
\* Python's None, for an omitted str argument
None == "None"
\* an omitted symbols argument (symbols=None) and a given one
NoSymbols == [given |-> FALSE, items |-> <<>>]
Symbols(s) == [given |-> TRUE, items |-> s]

\* str.lower() on the strings of the model
LowerTable ==
    [s \in {"USD", "EUR", "CAD", "ZZZ", "Usd", "Eur"} |->
        CASE s \in {"USD", "Usd"} -> "usd"
          [] s \in {"EUR", "Eur"} -> "eur"
          [] s = "CAD" -> "cad"
          [] s = "ZZZ" -> "zzz"]
Lower(s) == IF s \in DOMAIN LowerTable THEN LowerTable[s] ELSE s

\* the lexicographic order of str, on the lowercase codes of the model
CodeOrder == <<"cad", "eur", "usd", "xau", "zzz">>
\* sorted(S) for a set of lowercase codes
Sorted(S) == SelectSeq(CodeOrder, LAMBDA c : c \in S)

\* a or b, for str arguments: None and "" are falsy
Or(a, b) == IF a = None \/ a = "" THEN b ELSE a

RECURSIVE Gcd(_, _)
Gcd(a, b) == IF b = 0 THEN a ELSE Gcd(b, a % b)
\* a float, kept as the reduced fraction <<n, d>> with d > 0
Frac(n, d) ==
    LET a == IF n < 0 THEN -n ELSE n
        g == Gcd(a, d)
    IN  <<n \div g, d \div g>>

(***************************************************************************)
(* float arithmetic, with MantDig significant bits and round-half-even     *)
(* (sys.float_info.mant_dig, scaled down).                                 *)
(***************************************************************************)
MantDig == 4

RECURSIVE Pow2(_)
Pow2(k) == IF k = 0 THEN 1 ELSE 2 * Pow2(k - 1)

RECURSIVE Scaled(_, _, _)
\* <<n, d, e>> with the same value n/d * 2^e and 2^(MantDig-1) <= n/d < 2^MantDig
Scaled(n, d, e) ==
    IF n < d * Pow2(MantDig - 1) THEN Scaled(2 * n, d, e - 1)
    ELSE IF n >= d * Pow2(MantDig) THEN Scaled(n, 2 * d, e + 1)
    ELSE <<n, d, e>>

\* the float nearest to n/d, for d > 0
RoundF(n, d) ==
    IF n = 0 THEN <<0, 1>>
    ELSE LET a == IF n < 0 THEN -n ELSE n
             s == Scaled(a, d, 0)
             q == s[1] \div s[2]
             r == s[1] % s[2]
             m == IF 2 * r > s[2] \/ (2 * r = s[2] /\ q % 2 = 1) THEN q + 1 ELSE q
             sg == IF n < 0 THEN -1 ELSE 1
         IN  IF s[3] >= 0 THEN Frac(sg * m * Pow2(s[3]), 1)
             ELSE Frac(sg * m, Pow2(-s[3]))

\* FDiv as a * b: the amount multiplied by the rate of its currency
FDivAsMul(a, b) == RoundF(a[1] * b[1], a[2] * b[2])
\* a / b and a * b on floats, b # 0 for the division
FDiv(a, b) ==
    IF b[1] < 0 THEN RoundF(-(a[1] * b[2]), a[2] * (-b[1]))
    ELSE RoundF(a[1] * b[2], a[2] * b[1])
\* FMul with the product cut to a whole number
FMulWhole(a, b) ==
    IF a[1] * b[1] >= 0 THEN <<(a[1] * b[1]) \div (a[2] * b[2]), 1>>
    ELSE <<-((-(a[1] * b[1])) \div (a[2] * b[2])), 1>>
FMul(a, b) == RoundF(a[1] * b[1], a[2] * b[2])

\* JSON values as json.loads yields them: int, float, str, None
JInt(k) == [t |-> "int", n |-> k, d |-> 1]
JFloat(n, d) == [t |-> "float", n |-> n, d |-> d]
JNull == [t |-> "null", n |-> 0, d |-> 1]
JStr == [t |-> "str", n |-> 0, d |-> 1]
\* float(v): defined on numbers, raises on None; an int that no float
\* equals becomes the nearest float
FloatOk(v) == v.t \in {"int", "float"}
Float(v) == RoundF(v.n, v.d)

(***************************************************************************)
(* datetime.date: values, comparison, + timedelta(days=1), isoformat and   *)
(* strptime("%Y-%m-%d").                                                   *)
(***************************************************************************)
Date(y, m, d) == [year |-> y, month |-> m, day |-> d]
FirstDay == Date(2024, 2, 28)

IsLeap(y) == (y % 4 = 0 /\ y % 100 # 0) \/ y % 400 = 0
DaysInMonth(y, m) ==
    IF m = 2 THEN (IF IsLeap(y) THEN 29 ELSE 28)
    ELSE IF m \in {4, 6, 9, 11} THEN 30 ELSE 31
\* current + timedelta(days=1)
NextDay(c) ==
    IF c.day < DaysInMonth(c.year, c.month) THEN Date(c.year, c.month, c.day + 1)
    ELSE IF c.month < 12 THEN Date(c.year, c.month + 1, 1)
    ELSE Date(c.year + 1, 1, 1)
\* a <= b on dates
DateLeq(a, b) ==
    \/ a.year < b.year
    \/ a.year = b.year /\ a.month < b.month
    \/ a.year = b.year /\ a.month = b.month /\ a.day <= b.day

DigitChars == <<"0", "1", "2", "3", "4", "5", "6", "7", "8", "9">>
Pad2(n) == DigitChars[(n \div 10) + 1] \o DigitChars[(n % 10) + 1]
Pad4(n) == Pad2(n \div 100) \o Pad2(n % 100)
NoPad(n) == IF n < 10 THEN DigitChars[n + 1] ELSE Pad2(n)
\* date.isoformat()
IsoFormat(c) == Pad4(c.year) \o "-" \o Pad2(c.month) \o "-" \o Pad2(c.day)
\* the same date written without zero padding, which strptime accepts too
Unpadded(c) == Pad4(c.year) \o "-" \o NoPad(c.month) \o "-" \o NoPad(c.day)

RECURSIVE DaysFrom(_, _)
\* the n consecutive days that start at c
DaysFrom(c, n) == IF n = 0 THEN <<>> ELSE <<c>> \o DaysFrom(NextDay(c), n - 1)
\* the days the upstream service has a snapshot for
Published == DaysFrom(FirstDay, NumDays)
\* the days of the model: the published ones and the day after the last
Calendar == DaysFrom(FirstDay, NumDays + 1)
CalendarSet == {Calendar[i] : i \in 1..Len(Calendar)}

\* an argument that is a str or a datetime.date
StrArg(s) == [t |-> "str", s |-> s, d |-> FirstDay]
DateArg(c) == [t |-> "date", s |-> "", d |-> c]

\* datetime.strptime(value, "%Y-%m-%d").date() succeeds on value
StrpOk(s) == \E c \in CalendarSet : s \in {IsoFormat(c), Unpadded(c)}
StrpTime(s) == CHOOSE c \in CalendarSet : s \in {IsoFormat(c), Unpadded(c)}

(***************************************************************************)
(* Errors: the exception type and the pieces of its message.               *)
(***************************************************************************)
NoError == [type |-> "", msg |-> <<>>]
Error(type, msg) == [type |-> type, msg |-> msg]
\* str(exc), as the pieces of the message
Str(e) == IF e = NoError THEN <<"None">> ELSE e.msg

(***************************************************************************)
(* The upstream service.  A URL is a base-URL template with date, version  *)
(* and endpoint substituted.  Each URL answers with its regular payload    *)
(* unless it is in faults.                                                 *)
(***************************************************************************)
\* _BASE_URLS with the fallback first
FallbackFirst == <<"currency-api.pages.dev", "cdn.jsdelivr.net">>
\* ExchangeRateAPI._BASE_URLS: the primary CDN, then the fallback
_BASE_URLS == <<"cdn.jsdelivr.net", "currency-api.pages.dev">>
api_version == "v1"

\* base_url_template.format(date=..., version=..., endpoint=...)
FormatUrl(template, date, version, endpoint) ==
    [host |-> template, date |-> date, version |-> version, endpoint |-> endpoint]
Endpoint(base) == "currencies/" \o base \o ".json"

Bases == {"usd", "eur"}
PublishedTokens == {"latest"} \cup {IsoFormat(Published[i]) : i \in 1..Len(Published)}
Tokens == {"latest"} \cup {IsoFormat(c) : c \in CalendarSet}
AllUrls ==
    {FormatUrl(_BASE_URLS[i], t, api_version, Endpoint(b)) :
        i \in 1..Len(_BASE_URLS), t \in Tokens, b \in Bases}
\* the base a URL of the service is for
UrlBase(url) == CHOOSE b \in Bases : url.endpoint = Endpoint(b)

\* what requests.get yields: an exception, or a response with a status and a
\* body; a body that parses is an object with "date" and one more key
Response(exc, status, parses, key, rates) ==
    [exc |-> exc, status |-> status, parses |-> parses, key |-> key, rates |-> rates]

\* the index of a published token: 0 for "latest", i for the i-th day
TokenIndex(t) ==
    IF t = "latest" THEN 0
    ELSE CHOOSE i \in 1..Len(Published) : IsoFormat(Published[i]) = t

\* the rates the service publishes for (date, base)
RegularRates(t, b) ==
    LET i == TokenIndex(t)
    IN  IF b = "usd"
        THEN ("usd" :> JInt(1) @@ "eur" :> JFloat(1, 2) @@ "cad" :> JInt(i + 2))
        ELSE ("eur" :> JInt(1) @@ "usd" :> JInt(2) @@ "cad" :> JInt(2 * (i + 2)))

Regular(url) ==
    IF url.date \in PublishedTokens
    THEN Response(FALSE, 200, TRUE, UrlBase(url), RegularRates(url.date, UrlBase(url)))
    ELSE Response(FALSE, 404, FALSE, "", <<>>)

FaultKinds == {"exc", "http500", "notjson", "nobase", "badvalue", "other"}
Faulty(kind, url) ==
    LET b == UrlBase(url)
    IN  CASE kind = "exc" -> Response(TRUE, 0, FALSE, "", <<>>)
          [] kind = "http500" -> Response(FALSE, 500, FALSE, "", <<>>)
          [] kind = "notjson" -> Response(FALSE, 200, FALSE, "", <<>>)
          [] kind = "nobase" ->
                Response(FALSE, 200, TRUE, IF b = "usd" THEN "USD" ELSE "EUR",
                         ("usd" :> JInt(1) @@ "eur" :> JInt(1)))
          [] kind = "badvalue" ->
                Response(FALSE, 200, TRUE, b, ("usd" :> JInt(1) @@ "eur" :> JNull))
          [] kind = "other" ->
                Response(FALSE, 200, TRUE, b,
                         IF b = "usd" THEN ("usd" :> JInt(1) @@ "EUR" :> JInt(3))
                         ELSE ("EUR" :> JInt(1) @@ "Usd" :> JFloat(1, 3)))

\* requests.get(url, timeout=self.timeout), with the service as it is now
Respond(url) == IF url \in DOMAIN faults THEN Faulty(faults[url], url) ELSE Regular(url)

(***************************************************************************)
(* ExchangeRateAPI._get_rates_for.  The cache is passed in and handed back *)
(* so that get_historical_rates can thread it through its loop.            *)
(***************************************************************************)
\* cache_key = (date, base)
CacheKey(date, base) == <<date, base>>

\* what a call of _get_rates_for leaves behind: how it ended, the exception
\* or the dict it returned, the cache after it and the URLs it requested
Raised(e, cache, rq, key) ==
    [outcome |-> "raise", error |-> e, rates |-> <<>>, cache |-> cache, reqs |-> rq,
     key |-> key]
Returned(rates, cache, rq, key) ==
    [outcome |-> "return", error |-> NoError, rates |-> rates, cache |-> cache,
     reqs |-> rq, key |-> key]

\* CacheHit without the lookup: every call goes to the network
CacheHitNever(cache, key) == FALSE
\* if cache_key in self._cache
CacheHit(cache, key) == key \in DOMAIN cache

\* {k.lower(): float(v) for k, v in rates.items()}; no payload of the model
\* holds two keys that differ in case only
Normalized(rates) ==
    [c \in {Lower(k) : k \in DOMAIN rates} |->
        Float(rates[CHOOSE k \in DOMAIN rates : Lower(k) = c])]

\* Store without the assignment: nothing is kept
StoreNothing(cache, key, normalized) == cache
\* self._cache[cache_key] = normalized
Store(cache, key, normalized) ==
    [k \in DOMAIN cache \cup {key} |-> IF k = key THEN normalized ELSE cache[k]]

\* LastError keeping the first exception instead
LastErrorFirst(last_error, exc) == IF last_error = NoError THEN exc ELSE last_error
\* last_error = exc: the exception of a failed attempt replaces the one
\* remembered before
LastError(last_error, exc) == exc

\* the exceptions of the four ways an attempt fails and the loop goes on
TransportError(url) == Error("RequestException", <<"GET", url.host>>)
StatusError(url, status) ==
    Error("ExchangeRateAPIError",
          <<"HTTP", IF status = 500 THEN "500" ELSE "404", "while fetching", url.host>>)
DecodeError(url) == Error("JSONDecodeError", <<"Expecting value", url.host>>)
StructureError(url, base) ==
    Error("ExchangeRateAPIError",
          <<"Unexpected response structure from", url.host, "missing base currency", base>>)
\* float(v) on a value that is no number: not caught by _get_rates_for
ValueTypeError == Error("TypeError", <<"float() argument must be a string or a real number">>)
\* raised after the loop
FetchError(base, date, last_error) ==
    Error("ExchangeRateAPIError",
          <<"Failed to fetch rates for", base, "on", date>> \o Str(last_error))

\* the attempt on one response: "ok", "crash" (an exception that leaves
\* _get_rates_for) or the exception that sends the loop to the next template
AttemptError(url, base, r) ==
    IF r.exc THEN TransportError(url)
    ELSE IF r.status = 200
         THEN IF ~r.parses THEN DecodeError(url)
              ELSE IF base # r.key /\ base # "date" THEN StructureError(url, base)
              ELSE NoError
         ELSE StatusError(url, r.status)

\* GoesOn without the continue statements: a failed attempt falls through
GoesOnNever(err) == FALSE
\* continue: the loop over the templates goes on after a failed attempt
GoesOn(err) == err # NoError

\* the one element of a set {F(x) : x \in {e}}, which gives F the value of e
Only(S) == CHOOSE x \in S : TRUE

RECURSIVE TryTemplates(_, _, _, _, _, _)
\* one pass of the loop body on the response r of url, then the rest of the loop
Attempt(i, cache, date, base, last_error, sent, url, r, err) ==
    IF GoesOn(err)
    THEN TryTemplates(i + 1, cache, date, base, LastError(last_error, err), sent)
    ELSE IF \E k \in DOMAIN r.rates : ~FloatOk(r.rates[k])
         THEN Raised(ValueTypeError, cache, sent, CacheKey(date, base))
         ELSE Returned(Normalized(r.rates),
                       Store(cache, CacheKey(date, base), Normalized(r.rates)),
                       sent, CacheKey(date, base))

\* for base_url_template in self._BASE_URLS: ..., from the i-th template on
TryTemplates(i, cache, date, base, last_error, rq) ==
    IF i > Len(_BASE_URLS)
    THEN Raised(FetchError(base, date, last_error), cache, rq, CacheKey(date, base))
    ELSE Only({Attempt(i, cache, date, base, last_error, Append(rq, url), url, Respond(url),
                       AttemptError(url, base, Respond(url))) :
               url \in {FormatUrl(_BASE_URLS[i], date, api_version, Endpoint(base))}})

\* _get_rates_for(date, base): the dict it returns is the cached object
GetRatesFor(cache, date, base) ==
    IF CacheHit(cache, CacheKey(date, base))
    THEN Returned(cache[CacheKey(date, base)], cache, <<>>, CacheKey(date, base))
    ELSE TryTemplates(1, cache, date, base, NoError, <<>>)

(***************************************************************************)
(* The public methods, as functions of the cache they start from.  Each    *)
(* yields how the call ended, the cache after it, the URLs requested, the  *)
(* calls of _get_rates_for it made, and the object returned: a dict (with  *)
(* ref naming the cache entry it is, or NoRef for a new object), a float,  *)
(* a list, or the dict of dicts of get_historical_rates.                   *)
(***************************************************************************)
NoRef == <<>>

\* a call of _get_rates_for, as the method that made it saw it
Lookup(r) == [key |-> r.key, outcome |-> r.outcome, error |-> r.error, rates |-> r.rates]

Result(outcome, error, cache, rq, lk) ==
    [outcome |-> outcome, error |-> error, cache |-> cache, reqs |-> rq, lookups |-> lk,
     rates |-> <<>>, ref |-> NoRef, number |-> <<0, 1>>, list |-> <<>>, series |-> <<>>]
\* Fail with the snapshots the call read dropped from the cache
FailDropping(error, cache, rq, lk) ==
    Result("raise", error,
           [k \in DOMAIN cache \ {lk[i].key : i \in 1..Len(lk)} |-> cache[k]], rq, lk)

Fail(error, cache, rq, lk) == Result("raise", error, cache, rq, lk)

\* {k: rates[k] for k in wanted}: a new dict
Restricted(rates, wanted) == [val |-> [k \in wanted |-> rates[k]], ref |-> NoRef]
\* DictCopy without the copy: return rates, the cached object
DictAlias(rates, key) == [val |-> rates, ref |-> key]
\* dict(rates): a new dict with the items of rates, the cache entry key
DictCopy(rates, key) == [val |-> rates, ref |-> NoRef]
\* Truthy as "if wanted is not None": an empty collection counts as given
TruthyGiven(symbols, wanted) == symbols.given
\* if wanted: a set that is given and not empty
Truthy(symbols, wanted) == symbols.given /\ wanted # {}

UnknownCodes(base_code, missing) ==
    Error("ExchangeRateAPIError",
          <<"Unknown currency code(s) for base", base_code>> \o Sorted(missing))

\* Wanted without lower(): the codes as the caller wrote them
WantedAsWritten(symbols) == {symbols.items[i] : i \in 1..Len(symbols.items)}
\* wanted = {c.lower() for c in symbols}
Wanted(symbols) == {Lower(symbols.items[i]) : i \in 1..Len(symbols.items)}

\* get_rates after rates = self._get_rates_for(date_str, base_code), which
\* ended as r
GetRatesWith(r, base_code, symbols, wanted) ==
    IF r.outcome = "raise" THEN Fail(r.error, r.cache, r.reqs, <<Lookup(r)>>)
    ELSE IF Truthy(symbols, wanted)
    THEN LET missing == wanted \ DOMAIN r.rates
         IN  IF missing # {}
             THEN Fail(UnknownCodes(base_code, missing), r.cache, r.reqs, <<Lookup(r)>>)
             ELSE [Result("return", NoError, r.cache, r.reqs, <<Lookup(r)>>)
                      EXCEPT !.rates = Restricted(r.rates, wanted).val,
                             !.ref = Restricted(r.rates, wanted).ref]
    ELSE [Result("return", NoError, r.cache, r.reqs, <<Lookup(r)>>)
             EXCEPT !.rates = DictCopy(r.rates, r.key).val,
                    !.ref = DictCopy(r.rates, r.key).ref]

\* get_rates(base=..., date=..., symbols=...) on a client whose default is dflt
GetRates(cache, dflt, base, date, symbols) ==
    Only({GetRatesWith(r, Lower(Or(base, dflt)), symbols, Wanted(symbols)) :
          r \in {GetRatesFor(cache, Or(date, "latest"), Lower(Or(base, dflt)))}})

\* CommonBase as the client's configured base
ConfiguredBase == base_currency
\* common_base = "usd"
CommonBase == "usd"

\* ConvertWith with the test of to_code before the test of from_code
ConvertWithToFirst(r, amount, from_code, to_code) ==
    IF r.outcome = "raise" THEN Fail(r.error, r.cache, r.reqs, <<Lookup(r)>>)
    ELSE IF to_code \notin DOMAIN r.rates
    THEN Fail(Error("ExchangeRateAPIError", <<"Unknown to_currency code:", to_code>>),
              r.cache, r.reqs, <<Lookup(r)>>)
    ELSE IF from_code \notin DOMAIN r.rates
    THEN Fail(Error("ExchangeRateAPIError", <<"Unknown from_currency code:", from_code>>),
              r.cache, r.reqs, <<Lookup(r)>>)
    ELSE IF r.rates[from_code][1] = 0
    THEN Fail(Error("ZeroDivisionError", <<"float division by zero">>),
              r.cache, r.reqs, <<Lookup(r)>>)
    ELSE LET rate_from == r.rates[from_code]
             rate_to == r.rates[to_code]
             amount_in_common_base == FDiv(Float(amount), rate_from)
             converted == FMul(amount_in_common_base, rate_to)
         IN  [Result("return", NoError, r.cache, r.reqs, <<Lookup(r)>>)
                 EXCEPT !.number = converted]

\* convert after rates = self._get_rates_for(date_str, common_base), which
\* ended as r
ConvertWith(r, amount, from_code, to_code) ==
    IF r.outcome = "raise" THEN Fail(r.error, r.cache, r.reqs, <<Lookup(r)>>)
    ELSE IF from_code \notin DOMAIN r.rates
    THEN Fail(Error("ExchangeRateAPIError", <<"Unknown from_currency code:", from_code>>),
              r.cache, r.reqs, <<Lookup(r)>>)
    ELSE IF to_code \notin DOMAIN r.rates
    THEN Fail(Error("ExchangeRateAPIError", <<"Unknown to_currency code:", to_code>>),
              r.cache, r.reqs, <<Lookup(r)>>)
    ELSE IF r.rates[from_code][1] = 0
    THEN Fail(Error("ZeroDivisionError", <<"float division by zero">>),
              r.cache, r.reqs, <<Lookup(r)>>)
    ELSE LET rate_from == r.rates[from_code]
             rate_to == r.rates[to_code]
             amount_in_common_base == FDiv(Float(amount), rate_from)
             converted == FMul(amount_in_common_base, rate_to)
         IN  [Result("return", NoError, r.cache, r.reqs, <<Lookup(r)>>)
                 EXCEPT !.number = converted]

\* convert(amount, to_currency, from_currency=..., date=...)
Convert(cache, dflt, amount, to_currency, from_currency, date) ==
    IF amount.t \notin {"int", "float"}
    THEN Fail(Error("TypeError", <<"amount must be a numeric type">>), cache, <<>>, <<>>)
    ELSE Only({ConvertWith(r, amount, Lower(Or(from_currency, dflt)), Lower(to_currency)) :
               r \in {GetRatesFor(cache, Or(date, "latest"), CommonBase)}})

\* available_currencies after rates = self._get_rates_for(date_str, "usd")
AvailableCurrenciesWith(r) ==
    IF r.outcome = "raise" THEN Fail(r.error, r.cache, r.reqs, <<Lookup(r)>>)
    ELSE [Result("return", NoError, r.cache, r.reqs, <<Lookup(r)>>)
             EXCEPT !.list = Sorted(DOMAIN r.rates)]

\* AvailableCurrencies without "or 'latest'": the date as it was given
AvailableCurrenciesDated(cache, date) ==
    Only({AvailableCurrenciesWith(r) : r \in {GetRatesFor(cache, date, "usd")}})
\* available_currencies(date=...)
AvailableCurrencies(cache, date) ==
    Only({AvailableCurrenciesWith(r) : r \in {GetRatesFor(cache, Or(date, "latest"), "usd")}})

\* _parse_date(value): the date, or the ValueError
ParseOk(value) == value.t = "date" \/ StrpOk(value.s)
ParseDate(value) == IF value.t = "date" THEN value.d ELSE StrpTime(value.s)
ParseError(value) == Error("ValueError", <<"Invalid date format", value.s>>)

\* current += timedelta(days=1)
Advance(current) == NextDay(current)
\* InRange as current < end: the end date left out
InRangeExclusive(current, end) == DateLeq(current, end) /\ current # end
\* while current <= end
InRange(current, end) == DateLeq(current, end)

\* the state of the loop of get_historical_rates: the cache, the dict result
\* (filled in date order, kept as the sequence of its items), with the URLs
\* requested and the calls of _get_rates_for so far
LoopState(cache, result, rq, lk) == [cache |-> cache, result |-> result, reqs |-> rq, lookups |-> lk]

RECURSIVE HistoricalLoop(_, _, _, _, _, _)
\* HistoricalStep with the exception of a day swallowed: the day is
\* skipped and the loop goes on
HistoricalStepSkipping(current, end, dflt, base, symbols, st, g) ==
    HistoricalLoop(Advance(current), end, dflt, base, symbols,
                   LoopState(g.cache,
                             IF g.outcome = "raise" THEN st.result
                             ELSE Append(st.result, [date |-> IsoFormat(current),
                                                     rates |-> g.rates, ref |-> g.ref]),
                             st.reqs \o g.reqs, st.lookups \o g.lookups))

\* result[date_str] = self.get_rates(...), which ended as g: an exception
\* leaves the method, a dict goes into result and the loop goes on
HistoricalStep(current, end, dflt, base, symbols, st, g) ==
    IF g.outcome = "raise"
    THEN Fail(g.error, g.cache, st.reqs \o g.reqs, st.lookups \o g.lookups)
    ELSE HistoricalLoop(Advance(current), end, dflt, base, symbols,
                        LoopState(g.cache,
                                  Append(st.result, [date |-> IsoFormat(current),
                                                     rates |-> g.rates, ref |-> g.ref]),
                                  st.reqs \o g.reqs, st.lookups \o g.lookups))

\* the while loop of get_historical_rates, from current on
HistoricalLoop(current, end, dflt, base, symbols, st) ==
    IF ~InRange(current, end)
    THEN [Result("return", NoError, st.cache, st.reqs, st.lookups) EXCEPT !.series = st.result]
    ELSE Only({HistoricalStep(current, end, dflt, base, symbols, s, g) :
               s \in {st}, g \in {GetRates(st.cache, dflt, base, IsoFormat(current), symbols)}})

\* Reversed without the test: no range counts as reversed
ReversedNever(start, end) == FALSE
\* if start > end
Reversed(start, end) == ~DateLeq(start, end)

\* get_historical_rates(start_date, end_date, base=..., symbols=...)
GetHistoricalRates(cache, dflt, start_date, end_date, base, symbols) ==
    IF ~ParseOk(start_date) THEN Fail(ParseError(start_date), cache, <<>>, <<>>)
    ELSE IF ~ParseOk(end_date) THEN Fail(ParseError(end_date), cache, <<>>, <<>>)
    ELSE IF Reversed(ParseDate(start_date), ParseDate(end_date))
    THEN Fail(Error("ValueError", <<"start_date must be on or before end_date">>),
              cache, <<>>, <<>>)
    ELSE HistoricalLoop(ParseDate(start_date), ParseDate(end_date), dflt, base, symbols,
                        LoopState(cache, <<>>, <<>>, <<>>))

(***************************************************************************)
(* The state machine.                                                      *)
(***************************************************************************)
\* the arguments the model calls the client with
CtorArgs == {"USD", "Eur"}
BaseArgs == {None, "USD"}
\* the day the model puts out of order
OutageDay == IsoFormat(Calendar[2])
DateArgs == {None, "latest", OutageDay}
SymbolArgs ==
    {NoSymbols, Symbols(<<>>), Symbols(<<"EUR", "cad", "eur">>),
     Symbols(<<"ZZZ", "cad", "xau">>)}
AmountArgs == {JInt(3), JStr}
ToArgs == {"cad", "ZZZ"}
FromArgs == {None, "zzz"}
ConvertDates == {None, OutageDay}
AvailableDates == {None, OutageDay}
StartArgs == {StrArg(IsoFormat(Calendar[1])), DateArg(Calendar[2]), StrArg("2024/02/28")}
EndArgs ==
    {StrArg(IsoFormat(Calendar[1])), StrArg(Unpadded(Calendar[NumDays])),
     StrArg(IsoFormat(Calendar[NumDays + 1]))}
RangeBases == {None}
RangeSymbols == {NoSymbols, Symbols(<<"EUR", "cad", "eur">>)}
\* the ways and the places the service is put out of order
OutageKinds == {"http500", "other"}
OutageKeys == {<<"latest", "usd">>, <<OutageDay, "usd">>, <<OutageDay, "eur">>}

Call(op) ==
    [op |-> op, base |-> None, date |-> None, symbols |-> NoSymbols, amount |-> JInt(0),
     to_currency |-> None, from_currency |-> None,
     start_date |-> StrArg(""), end_date |-> StrArg("")]

\* ExchangeRateAPI(base_currency=b): __init__
Init ==
    /\ base_currency \in {Lower(b) : b \in CtorArgs}
    /\ _cache = <<>>
    /\ faults = <<>>
    /\ call = Call("__init__")
    /\ ret = [outcome |-> "return", error |-> NoError, rates |-> <<>>, ref |-> NoRef,
              number |-> <<0, 1>>, list |-> <<>>, series |-> <<>>]
    /\ reqs = <<>>
    /\ lookups = <<>>
    /\ holding = FALSE
    /\ first = <<>>
    /\ fetches = <<>>
    /\ origin = <<>>
    /\ nops = 0

\* the (date, base) a URL of the service is for
UrlKey(url) == <<url.date, UrlBase(url)>>
\* the i-th call of _get_rates_for in res went to the network and returned
Fetched(res, i) ==
    /\ res.lookups[i].outcome = "return"
    /\ \E j \in 1..Len(res.reqs) : UrlKey(res.reqs[j]) = res.lookups[i].key
FetchedKeys(res) == {res.lookups[i].key : i \in {j \in 1..Len(res.lookups) : Fetched(res, j)}}
FetchedRates(res, key) ==
    res.lookups[CHOOSE i \in 1..Len(res.lookups) :
                    Fetched(res, i) /\ res.lookups[i].key = key].rates

\* what the URLs of key answer now, in the order of the templates
Upstream(key) ==
    [i \in 1..Len(_BASE_URLS) |->
        Respond(FormatUrl(_BASE_URLS[i], key[1], api_version, Endpoint(key[2])))]

\* the public call c, which yields res, takes the client to its next state
Apply(c, res) ==
    /\ nops' = nops + 1
    /\ call' = c
    /\ _cache' = res.cache
    /\ ret' = [outcome |-> res.outcome, error |-> res.error, rates |-> res.rates,
               ref |-> res.ref, number |-> res.number, list |-> res.list,
               series |-> res.series]
    /\ reqs' = res.reqs
    /\ lookups' = res.lookups
    /\ holding' = (res.outcome = "return" /\ c.op # "convert")
    /\ first' = [k \in DOMAIN first \cup FetchedKeys(res) |->
                    IF k \in DOMAIN first THEN first[k] ELSE FetchedRates(res, k)]
    /\ fetches' = [k \in DOMAIN fetches \cup FetchedKeys(res) |->
                    (IF k \in DOMAIN fetches THEN fetches[k] ELSE 0)
                        + (IF k \in FetchedKeys(res) THEN 1 ELSE 0)]
    /\ origin' = [k \in DOMAIN origin \cup FetchedKeys(res) |->
                    IF k \in FetchedKeys(res)
                    THEN [op |-> c.op, outcome |-> res.outcome, upstream |-> Upstream(k),
                          rates |-> FetchedRates(res, k),
                          count |-> IF k \in DOMAIN origin THEN origin[k].count + 1 ELSE 1]
                    ELSE origin[k]]
    /\ UNCHANGED <<base_currency, faults>>

GetRatesCall(base, date, symbols) ==
    /\ nops < MaxOps
    /\ \E res \in {GetRates(_cache, base_currency, base, date, symbols)} :
          Apply([Call("get_rates") EXCEPT !.base = base, !.date = date,
                                          !.symbols = symbols], res)

ConvertCall(amount, to_currency, from_currency, date) ==
    /\ nops < MaxOps
    /\ \E res \in {Convert(_cache, base_currency, amount, to_currency, from_currency, date)} :
          Apply([Call("convert") EXCEPT !.amount = amount, !.to_currency = to_currency,
                                        !.from_currency = from_currency, !.date = date], res)

GetHistoricalRatesCall(start_date, end_date, base, symbols) ==
    /\ nops < MaxOps
    /\ \E res \in {GetHistoricalRates(_cache, base_currency, start_date, end_date, base,
                                      symbols)} :
          Apply([Call("get_historical_rates") EXCEPT !.start_date = start_date,
                    !.end_date = end_date, !.base = base, !.symbols = symbols], res)

AvailableCurrenciesCall(date) ==
    /\ nops < MaxOps
    /\ \E res \in {AvailableCurrencies(_cache, date)} :
          Apply([Call("available_currencies") EXCEPT !.date = date], res)

\* ClearCache with the entries left in the cache
ClearCacheKeeping ==
    /\ _cache' = _cache
    /\ call' = Call("clear_cache")
    /\ ret' = [outcome |-> "return", error |-> NoError, rates |-> <<>>, ref |-> NoRef,
               number |-> <<0, 1>>, list |-> <<>>, series |-> <<>>]
    /\ reqs' = <<>>
    /\ lookups' = <<>>
    /\ holding' = FALSE
    /\ first' = <<>>
    /\ fetches' = <<>>
    /\ UNCHANGED <<base_currency, faults, origin, nops>>

\* clear_cache(): self._cache.clear()
ClearCache ==
    /\ _cache' = <<>>
    /\ call' = Call("clear_cache")
    /\ ret' = [outcome |-> "return", error |-> NoError, rates |-> <<>>, ref |-> NoRef,
               number |-> <<0, 1>>, list |-> <<>>, series |-> <<>>]
    /\ reqs' = <<>>
    /\ lookups' = <<>>
    /\ holding' = FALSE
    /\ first' = <<>>
    /\ fetches' = <<>>
    /\ UNCHANGED <<base_currency, faults, origin, nops>>

\* the dicts the last call returned, each with the cache entry it is (or NoRef)
HeldDicts ==
    IF call.op = "get_rates" THEN <<[val |-> ret.rates, ref |-> ret.ref]>>
    ELSE [i \in 1..Len(ret.series) |-> [val |-> ret.series[i].rates, ref |-> ret.series[i].ref]]

\* d[k] = 9.0, del d[k], d["new"] = 9.0 on a dict d
Mutated(d, how, k) ==
    CASE how = "set" -> [d EXCEPT ![k] = <<9, 1>>]
      [] how = "del" -> [c \in DOMAIN d \ {k} |-> d[c]]
      [] how = "add" -> [c \in DOMAIN d \cup {"new"} |-> IF c = "new" THEN <<9, 1>> ELSE d[c]]

\* the caller changes the i-th dict the last call returned, and lets go of
\* what that call returned; a dict that is a cache entry changes in the cache
CallerMutatesDict(i, how, k) ==
    /\ holding
    /\ i \in 1..Len(HeldDicts)
    /\ k \in DOMAIN HeldDicts[i].val
    /\ holding' = FALSE
    /\ _cache' = IF HeldDicts[i].ref \in DOMAIN _cache
                 THEN [_cache EXCEPT ![HeldDicts[i].ref] = Mutated(HeldDicts[i].val, how, k)]
                 ELSE _cache
    /\ UNCHANGED <<base_currency, faults, call, ret, reqs, lookups, first, fetches, origin,
                   nops>>

\* the caller changes the list available_currencies returned: sorted() made it
CallerMutatesList ==
    /\ holding
    /\ call.op = "available_currencies"
    /\ holding' = FALSE
    /\ UNCHANGED <<base_currency, _cache, faults, call, ret, reqs, lookups, first,
                   fetches, origin, nops>>

\* both hosts of the service start to answer kind for (date, base), and
\* regularly for everything else
Outage(key, kind) ==
    /\ nops < MaxOps
    /\ faults' = [u \in {v \in AllUrls : UrlKey(v) = key} |-> kind]
    /\ faults' # faults
    /\ UNCHANGED <<base_currency, _cache, call, ret, reqs, lookups, holding, first,
                   fetches, origin, nops>>

\* the service answers regularly again
Restore ==
    /\ nops < MaxOps
    /\ faults # <<>>
    /\ faults' = <<>>
    /\ UNCHANGED <<base_currency, _cache, call, ret, reqs, lookups, holding, first,
                   fetches, origin, nops>>

\* one URL of the service starts to answer kind; the URLs out of order are
\* all for one (date, base)
UpstreamFails(url, kind) ==
    /\ nops < MaxOps
    /\ faults' = [u \in {v \in DOMAIN faults : UrlKey(v) = UrlKey(url)} \cup {url} |->
                    IF u = url THEN kind ELSE faults[u]]
    /\ faults' # faults
    /\ UNCHANGED <<base_currency, _cache, call, ret, reqs, lookups, holding, first,
                   fetches, origin, nops>>

\* one URL of the service answers regularly again
UpstreamRecovers(url) ==
    /\ nops < MaxOps
    /\ url \in DOMAIN faults
    /\ faults' = [u \in DOMAIN faults \ {url} |-> faults[u]]
    /\ UNCHANGED <<base_currency, _cache, call, ret, reqs, lookups, holding, first,
                   fetches, origin, nops>>

MutationArgs == {"set", "del", "add"}
MutatedKeys == {"usd", "cad"}

\* every public method, and a service that is out of order as a whole for
\* one (date, base) at a time
Next ==
    \/ \E b \in BaseArgs, d \in DateArgs, s \in SymbolArgs : GetRatesCall(b, d, s)
    \/ \E a \in AmountArgs, t \in ToArgs, f \in FromArgs, d \in ConvertDates :
          ConvertCall(a, t, f, d)
    \/ \E s \in StartArgs, e \in EndArgs, b \in RangeBases, y \in RangeSymbols :
          GetHistoricalRatesCall(s, e, b, y)
    \/ \E d \in AvailableDates : AvailableCurrenciesCall(d)
    \/ ClearCache
    \/ \E i \in 1..(NumDays + 1), how \in MutationArgs, k \in MutatedKeys :
          CallerMutatesDict(i, how, k)
    \/ CallerMutatesList
    \/ \E key \in OutageKeys, kind \in OutageKinds : Outage(key, kind)
    \/ Restore

Spec == Init /\ [][Next]_vars

\* the URLs of the snapshots for "latest"
LatestUrls == {u \in AllUrls : u.date = "latest"}

\* the methods on the latest snapshot, and a service of which every URL
\* answers in every way
NextFetch ==
    \/ \E b \in BaseArgs : GetRatesCall(b, None, NoSymbols)
    \/ ConvertCall(JInt(3), "cad", None, None)
    \/ AvailableCurrenciesCall("latest")
    \/ ClearCache
    \/ \E u \in LatestUrls, kind \in FaultKinds : UpstreamFails(u, kind)
    \/ \E u \in LatestUrls : UpstreamRecovers(u)

SpecFetch == Init /\ [][NextFetch]_vars

\* the amounts and the codes convert is called with: whole and fractional
\* amounts, of both signs, and a whole number that no float equals
ConvertAmounts ==
    {JInt(0), JInt(3), JInt(7), JInt(-7), JInt(Pow2(MantDig) + 1), JFloat(5, 2), JStr}
CodeArgs == {"usd", "EUR", "cad", "ZZZ"}
\* the float the last call returned, as the amount of the next
Returned_number == JFloat(ret.number[1], ret.number[2])

\* convert on the latest snapshot, with what convert returned passed on as
\* an amount, and a service that serves the regular payload or another one
NextConvert ==
    \/ \E a \in ConvertAmounts \cup {Returned_number}, t \in CodeArgs,
          f \in CodeArgs \cup {None} : ConvertCall(a, t, f, None)
    \/ ClearCache
    \/ Outage(<<"latest", "usd">>, "other")
    \/ Restore

SpecConvert == Init /\ [][NextConvert]_vars

\* the bases and the dates the methods are called with to meet in the cache
KeyBases == {None, "usd", "USD", "Usd", "eur", "EUR"}
KeyDates == {None, "latest", OutageDay}

\* the methods that read a snapshot, each with a base in every letter case
\* or none and a date or none
NextKeys ==
    \/ \E b \in KeyBases, d \in KeyDates : GetRatesCall(b, d, NoSymbols)
    \/ \E d \in KeyDates : ConvertCall(JInt(3), "cad", None, d)
    \/ \E d \in KeyDates : AvailableCurrenciesCall(d)
    \/ ClearCache

SpecKeys == Init /\ [][NextKeys]_vars

(***************************************************************************)
(* Properties.                                                             *)
(***************************************************************************)
\* a step that is a public call other than clear_cache
IsCall == nops' = nops + 1

PrimaryHost == "cdn.jsdelivr.net"
SecondaryHost == "currency-api.pages.dev"
\* the URL of the snapshot key = (date, base) on host
UrlOf(host, key) ==
    [host |-> host, date |-> key[1], version |-> "v1",
     endpoint |-> "currencies/" \o key[2] \o ".json"]
\* the URLs among rq that are for key
RequestsFor(rq, key) == SelectSeq(rq, LAMBDA u : UrlKey(u) = key)

\* the answer of url is a full success for base: status 200, a body that
\* parses, the base key in it
FullSuccess(url, base) ==
    /\ ~Respond(url).exc
    /\ Respond(url).status = 200
    /\ Respond(url).parses
    /\ Respond(url).key = base
\* the answer of url fails for base in one of the four ways the loop goes on
\* from
AttemptFails(url, base) ==
    \/ Respond(url).exc
    \/ Respond(url).status # 200
    \/ ~Respond(url).parses
    \/ Respond(url).key # base

\* C1: between two clear_cache calls, once a retrieval for (date, base) has
\* succeeded, every later call that needs (date, base) gets the dict first
\* fetched and requests no URL of (date, base); so every (date, base) is
\* fetched successfully at most once.
C1_FetchedOnce ==
    [][/\ IsCall =>
            \A i \in 1..Len(lookups') :
                lookups'[i].key \in DOMAIN first =>
                    /\ lookups'[i].outcome = "return"
                    /\ lookups'[i].rates = first[lookups'[i].key]
                    /\ RequestsFor(reqs', lookups'[i].key) = <<>>
                    /\ (call'.op = "get_rates" /\ ~Truthy(call'.symbols, Wanted(call'.symbols))
                            => ret'.rates = first[lookups'[i].key])
       /\ \A k \in DOMAIN fetches' : fetches'[k] <= 1]_vars

\* a call served from the cache while the service is out of order for its key
C1_Witness ==
    /\ nops = 2
    /\ Len(lookups) = 1
    /\ lookups[1].outcome = "return"
    /\ reqs = <<>>
    /\ \E u \in DOMAIN faults : UrlKey(u) = lookups[1].key /\ faults[u] = "http500"

\* C2: a cache entry keeps its content until clear_cache: no public call
\* and no change a caller makes to a returned object alters or removes it,
\* and no returned dict is the cached object itself.
C2_EntriesKept ==
    [][/\ \A k \in DOMAIN _cache : k \in DOMAIN _cache' => _cache'[k] = _cache[k]
       /\ ClearCache \/ DOMAIN _cache \subseteq DOMAIN _cache'
       /\ ret'.ref = NoRef
       /\ \A i \in 1..Len(ret'.series) : ret'.series[i].ref = NoRef]_vars

\* the caller has changed the full dict get_rates returned, and the entry is
\* in the cache
C2_Witness ==
    /\ call.op = "get_rates"
    /\ ~call.symbols.given
    /\ ret.outcome = "return"
    /\ ~holding
    /\ lookups[1].key \in DOMAIN _cache

\* C3: a cache entry is written only for a key one of whose URLs answered
\* with a full success; a retrieval that fails on every template leaves the
\* cache as it was, and a call that needs a key that is not cached requests
\* the primary URL of the key first.
C3_OnlySuccessCached ==
    [][IsCall =>
        /\ \A k \in DOMAIN _cache' \ DOMAIN _cache :
              \E j \in 1..Len(reqs') : UrlKey(reqs'[j]) = k /\ FullSuccess(reqs'[j], k[2])
        /\ \A i \in 1..Len(lookups') :
              /\ lookups'[i].outcome = "raise" =>
                    /\ lookups'[i].key \notin DOMAIN _cache'
                    /\ (Len(lookups') = 1 => _cache' = _cache)
              /\ lookups'[i].key \notin DOMAIN _cache =>
                    /\ RequestsFor(reqs', lookups'[i].key) # <<>>
                    /\ RequestsFor(reqs', lookups'[i].key)[1]
                          = UrlOf(PrimaryHost, lookups'[i].key)]_vars

\* a retrieval that failed on both templates, with entries in the cache
C3_Witness ==
    /\ ret.outcome = "raise"
    /\ Len(lookups) = 1
    /\ lookups[1].outcome = "raise"
    /\ Len(reqs) = 2
    /\ _cache # <<>>
    /\ lookups[1].key \notin DOMAIN _cache

\* C4: on a cache miss the primary URL is requested first and once, the
\* secondary URL is requested, once and after it, exactly when the primary
\* attempt failed in one of the four ways, nothing is requested after a
\* success, and the dict returned is the normalised payload of the last URL
\* requested.
C4_FallbackOrder ==
    [][IsCall =>
        \A i \in 1..Len(lookups') :
            lookups'[i].key \notin DOMAIN _cache =>
                LET key == lookups'[i].key
                    sent == RequestsFor(reqs', key)
                    primary == UrlOf(PrimaryHost, key)
                    secondary == UrlOf(SecondaryHost, key)
                IN  /\ sent = IF AttemptFails(primary, key[2])
                              THEN <<primary, secondary>> ELSE <<primary>>
                    /\ lookups'[i].outcome = "return" =>
                          /\ FullSuccess(sent[Len(sent)], key[2])
                          /\ lookups'[i].rates = Normalized(Respond(sent[Len(sent)]).rates)]_vars

\* the fallback served a payload that differs from the regular one
C4_Witness ==
    /\ Len(lookups) = 1
    /\ lookups[1].outcome = "return"
    /\ Len(reqs) = 2
    /\ reqs[1] \in DOMAIN faults
    /\ reqs[2] \in DOMAIN faults
    /\ faults[reqs[2]] = "other"

\* C5: when both attempts of a retrieval fail in one of the four ways, the
\* call raises ExchangeRateAPIError with the message of the secondary
\* attempt's exception, not of the primary's, and returns nothing.
C5_LastErrorReported ==
    [][IsCall =>
        \A i \in 1..Len(lookups') :
            LET key == lookups'[i].key
                primary == UrlOf(PrimaryHost, key)
                secondary == UrlOf(SecondaryHost, key)
            IN  (/\ key \notin DOMAIN _cache
                 /\ AttemptFails(primary, key[2])
                 /\ AttemptFails(secondary, key[2])) =>
                    /\ ret'.outcome = "raise"
                    /\ ret'.error.type = "ExchangeRateAPIError"
                    /\ ret'.error.msg =
                          <<"Failed to fetch rates for", key[2], "on", key[1]>>
                              \o AttemptError(secondary, key[2], Respond(secondary)).msg
                    /\ ret'.error.msg #
                          <<"Failed to fetch rates for", key[2], "on", key[1]>>
                              \o AttemptError(primary, key[2], Respond(primary)).msg
                    /\ ret'.rates = <<>> /\ ret'.list = <<>> /\ ret'.series = <<>>
                    /\ lookups'[i].rates = <<>>]_vars

\* both attempts failed, in different ways
C5_Witness ==
    /\ ret.outcome = "raise"
    /\ Len(reqs) = 2
    /\ reqs[1] \in DOMAIN faults
    /\ reqs[2] \in DOMAIN faults
    /\ faults[reqs[1]] = "exc"
    /\ faults[reqs[2]] = "nobase"

\* the codes of a sequence are in ascending order, none twice
Ascending(codes) ==
    \A i, j \in 1..Len(codes) :
        i < j => \E a, b \in 1..Len(CodeOrder) :
                    a < b /\ CodeOrder[a] = codes[i] /\ CodeOrder[b] = codes[j]
\* the elements of a sequence
Range(seq) == {seq[i] : i \in 1..Len(seq)}
\* the lowercased codes of the symbols of the last call
Asked == {Lower(c) : c \in Range(call.symbols.items)}

\* what C6 says of a get_rates call whose symbols are given and whose
\* snapshot was retrieved
SubsetOrUnknown ==
    IF Asked \subseteq DOMAIN lookups[1].rates
    THEN /\ ret.outcome = "return"
         /\ DOMAIN ret.rates = Asked
         /\ \A c \in Asked : ret.rates[c] = lookups[1].rates[c]
    ELSE /\ ret.outcome = "raise"
         /\ ret.error.type = "ExchangeRateAPIError"
         /\ ret.error.msg[1] = "Unknown currency code(s) for base"
         /\ ret.error.msg[2] = lookups[1].key[2]
         /\ Range(SubSeq(ret.error.msg, 3, Len(ret.error.msg)))
                = Asked \ DOMAIN lookups[1].rates
         /\ Ascending(SubSeq(ret.error.msg, 3, Len(ret.error.msg)))
         /\ ret.rates = <<>>

\* C6 as claimed: for every collection of symbols, the empty one included,
\* get_rates returns exactly the lowercased symbols with the snapshot's
\* values when all are in the snapshot, and otherwise raises naming exactly
\* the absent ones in sorted order.
C6_AsClaimed ==
    (/\ call.op = "get_rates"
     /\ call.symbols.given
     /\ lookups[1].outcome = "return") => SubsetOrUnknown

\* C6, amended: the same for every collection of symbols that is not empty.
C6_SymbolsSubset ==
    (/\ call.op = "get_rates"
     /\ call.symbols.given
     /\ call.symbols.items # <<>>
     /\ lookups[1].outcome = "return") => SubsetOrUnknown

\* two codes of three asked are absent from the snapshot retrieved
C6_Witness ==
    /\ call.op = "get_rates"
    /\ call.symbols = Symbols(<<"ZZZ", "cad", "xau">>)
    /\ lookups[1].outcome = "return"
    /\ ret.outcome = "raise"
    /\ SubSeq(ret.error.msg, 3, Len(ret.error.msg)) = <<"xau", "zzz">>

\* C7: get_rates with symbols omitted or empty returns a dict equal to the
\* cached snapshot of (date, base), date being "latest" when omitted and
\* base the client's lowercase base_currency when omitted.
C7_FullSnapshot ==
    /\ base_currency \in {"usd", "eur"}
    /\ (/\ call.op = "get_rates"
        /\ ~call.symbols.given \/ call.symbols.items = <<>>
        /\ lookups[1].outcome = "return") =>
            LET key == <<IF call.date = None THEN "latest" ELSE call.date,
                         IF call.base = None THEN base_currency
                         ELSE IF call.base = "USD" THEN "usd" ELSE call.base>>
            IN  /\ lookups[1].key = key
                /\ key \in DOMAIN _cache
                /\ ret.outcome = "return"
                /\ DOMAIN ret.rates = DOMAIN _cache[key]
                /\ \A c \in DOMAIN ret.rates : ret.rates[c] = _cache[key][c]

\* get_rates(symbols=[]) on a client made with "Eur" returned the snapshot
\* of ("latest", "eur")
C7_Witness ==
    /\ call.op = "get_rates"
    /\ call.symbols = Symbols(<<>>)
    /\ call.base = None
    /\ call.date = None
    /\ ret.outcome = "return"
    /\ DOMAIN ret.rates = {"eur", "usd", "cad"}
    /\ <<"latest", "eur">> \in DOMAIN _cache

\* C8: convert retrieves at most one snapshot, the one of (date, "usd"): it
\* requests only URLs of currencies/usd.json for that date, adds no cache
\* key but (date, "usd") and leaves every other entry as it was.
C8_ConvertUsesUsd ==
    [][(IsCall /\ call'.op = "convert") =>
        LET key == <<IF call'.date = None THEN "latest" ELSE call'.date, "usd">>
        IN  /\ Len(lookups') <= 1
            /\ \A i \in 1..Len(lookups') : lookups'[i].key = key
            /\ \A j \in 1..Len(reqs') :
                  /\ reqs'[j].endpoint = "currencies/usd.json"
                  /\ reqs'[j].date = key[1]
            /\ DOMAIN _cache' \subseteq DOMAIN _cache \cup {key}
            /\ \A k \in DOMAIN _cache : k \in DOMAIN _cache' /\ _cache'[k] = _cache[k]]_vars

\* a client whose base is "eur" converted from its base and fetched (date, "usd")
C8_Witness ==
    /\ call.op = "convert"
    /\ base_currency = "eur"
    /\ call.from_currency = None
    /\ call.date = OutageDay
    /\ reqs # <<>>
    /\ DOMAIN _cache = {<<OutageDay, "usd">>}

\* the calendar of the model, written out
IsoDays ==
    <<"2024-02-28", "2024-02-29", "2024-03-01", "2024-03-02", "2024-03-03", "2024-03-04">>
\* the place in the calendar of a start_date or end_date argument
DayNumber(value) == CHOOSE i \in 1..Len(Calendar) : Calendar[i] = ParseDate(value)
\* the place in the calendar of a date token
TokenNumber(t) == CHOOSE i \in 1..Len(IsoDays) : IsoDays[i] = t

\* C9: get_historical_rates(start, end) with start <= end returns one entry
\* for every day from start to end, both included, keyed by ISO date string
\* in ascending date order, each entry being what get_rates returns for
\* that day with the same base and symbols.
C9_InclusiveRange ==
    (call.op = "get_historical_rates" /\ ret.outcome = "return") =>
        LET a == DayNumber(call.start_date)
            b == DayNumber(call.end_date)
        IN  /\ a <= b
            /\ Len(ret.series) = b - a + 1
            /\ \A k \in 1..Len(ret.series) :
                  /\ ret.series[k].date = IsoDays[a + k - 1]
                  /\ ret.series[k].rates =
                        GetRates(_cache, base_currency, call.base, IsoDays[a + k - 1],
                                 call.symbols).rates
                  /\ GetRates(_cache, base_currency, call.base, IsoDays[a + k - 1],
                              call.symbols).outcome = "return"

\* a range over the leap day, from a str to an unpadded str, returned
C9_Witness ==
    /\ call.op = "get_historical_rates"
    /\ ret.outcome = "return"
    /\ call.start_date = StrArg("2024-02-28")
    /\ call.end_date.s \in {"2024-3-1", "2024-3-2"}
    /\ Len(ret.series) = NumDays
    /\ ret.series[2].date = "2024-02-29"
    /\ ret.series[3].date = "2024-03-01"

\* the i-th day of the last get_historical_rates call failed: its snapshot
\* was not retrieved or lacks a symbol asked for
DayFailed(i) ==
    \/ lookups[i].outcome = "raise"
    \/ /\ call.symbols.given
       /\ Asked # {}
       /\ ~(Asked \subseteq DOMAIN lookups[i].rates)

\* C10: in get_historical_rates a day that fails is the last day tried: the
\* call raises that day's error, returns no entry at all, and requests no
\* URL of a later day.
C10_AbortsAtFailure ==
    call.op = "get_historical_rates" =>
        \A i \in 1..Len(lookups) :
            DayFailed(i) =>
                /\ i = Len(lookups)
                /\ ret.outcome = "raise"
                /\ ret.series = <<>>
                /\ ret.rates = <<>>
                /\ IF lookups[i].outcome = "raise" THEN ret.error = lookups[i].error
                   ELSE /\ ret.error.type = "ExchangeRateAPIError"
                        /\ ret.error.msg[1] = "Unknown currency code(s) for base"
                /\ \A j \in 1..Len(reqs) :
                      TokenNumber(reqs[j].date) <= TokenNumber(lookups[i].key[1])

\* the second day of a longer range failed after the first was fetched
C10_Witness ==
    /\ call.op = "get_historical_rates"
    /\ call.start_date = StrArg("2024-02-28")
    /\ DayNumber(call.end_date) >= 3
    /\ ret.outcome = "raise"
    /\ Len(lookups) = 2
    /\ lookups[1].outcome = "return"
    /\ lookups[2].key[1] = "2024-02-29"
    /\ Len(reqs) >= 3

\* C11: clear_cache leaves the cache empty, and the next call that needs a
\* (date, base) fetched before and cleared since requests its primary URL
\* first and, when the URLs of the key answer as they did at that fetch,
\* retrieves a dict equal to the one fetched then.
C11_RefetchAfterClear ==
    [][/\ call'.op = "clear_cache" => _cache' = <<>>
       /\ IsCall =>
            \A i \in 1..Len(lookups') :
                LET key == lookups'[i].key
                IN  (key \in DOMAIN origin /\ key \notin DOMAIN _cache) =>
                        /\ RequestsFor(reqs', key) # <<>>
                        /\ RequestsFor(reqs', key)[1] = UrlOf(PrimaryHost, key)
                        /\ Upstream(key) = origin[key].upstream =>
                              /\ lookups'[i].outcome = "return"
                              /\ lookups'[i].rates = origin[key].rates
                              /\ (call'.op = "get_rates" /\ ~call'.symbols.given
                                     => ret'.rates = origin[key].rates)]_vars

\* a key fetched, cleared and fetched again by the last call
C11_Witness ==
    /\ nops = 2
    /\ call.op = "get_rates"
    /\ ret.outcome = "return"
    /\ reqs # <<>>
    /\ lookups[1].key \in DOMAIN origin
    /\ origin[lookups[1].key].count = 2
    /\ fetches[lookups[1].key] = 1
    /\ ret.rates = _cache[lookups[1].key]

\* C12: get_historical_rates with start after end raises ValueError, the
\* type _parse_date raises for a malformed date and not the type of the
\* retrieval and unknown-currency errors, without any request, any call of
\* _get_rates_for or any change of the cache.
C12_ReversedRange ==
    [][(/\ IsCall
        /\ call'.op = "get_historical_rates"
        /\ ParseOk(call'.start_date)
        /\ ParseOk(call'.end_date)
        /\ DayNumber(call'.start_date) > DayNumber(call'.end_date)) =>
            /\ ret'.outcome = "raise"
            /\ ret'.error.type = "ValueError"
            /\ ret'.error.type = ParseError(StrArg("2024/02/28")).type
            /\ ret'.error.type # "ExchangeRateAPIError"
            /\ ret'.error.msg = <<"start_date must be on or before end_date">>
            /\ ret'.series = <<>>
            /\ reqs' = <<>>
            /\ lookups' = <<>>
            /\ _cache' = _cache]_vars

\* a reversed range asked of a client whose cache holds an entry
C12_Witness ==
    /\ call.op = "get_historical_rates"
    /\ call.start_date = DateArg(Date(2024, 2, 29))
    /\ call.end_date = StrArg("2024-02-28")
    /\ ret.outcome = "raise"
    /\ ret.error.type = "ValueError"
    /\ _cache # <<>>

\* |n|
Abs(n) == IF n < 0 THEN -n ELSE n
\* the code convert converts from, and the code it converts to
FromCode(c) == Lower(IF c.from_currency = None THEN base_currency ELSE c.from_currency)
ToCode(c) == Lower(c.to_currency)
\* the step is the second leg of a round trip: convert called with what the
\* convert before it returned, from the code that one converted to, to the
\* code that one converted from, for the same date
SecondLeg ==
    /\ IsCall
    /\ call.op = "convert"
    /\ ret.outcome = "return"
    /\ call'.op = "convert"
    /\ call'.amount = Returned_number
    /\ call'.from_currency # None
    /\ FromCode(call') = ToCode(call)
    /\ ToCode(call') = FromCode(call)
    /\ call'.date = call.date

RECURSIVE OddPart(_)
\* n without its factors 2, for n > 0
OddPart(n) == IF n % 2 = 0 THEN OddPart(n \div 2) ELSE n
\* the number v is one a float equals: a float, or an int whose odd part
\* fits the significand
Representable(v) == v.t = "float" \/ v.n = 0 \/ OddPart(Abs(v.n)) < Pow2(MantDig)
\* the last call was convert(x, "usd", from_currency="usd") in any letter
\* case or with the base of a usd client, and its snapshot was retrieved
PivotToPivot ==
    /\ call.op = "convert"
    /\ call.amount.t \in {"int", "float"}
    /\ FromCode(call) = "usd"
    /\ ToCode(call) = "usd"
    /\ lookups # <<>>
    /\ lookups[1].outcome = "return"

\* C14 as claimed: for every numeric amount x, convert from usd to usd
\* returns x.
C14_AsClaimed ==
    PivotToPivot =>
        /\ ret.outcome = "return"
        /\ ret.number = Frac(call.amount.n, call.amount.d)

\* C14, amended: convert from usd to usd returns float(x), which is x for
\* every float x and every int x that a float equals; the snapshot holds
\* usd with rate 1.
C14_PivotIdentity ==
    PivotToPivot =>
        /\ ret.outcome = "return"
        /\ lookups[1].rates["usd"] = <<1, 1>>
        /\ ret.number = Float(call.amount)
        /\ Representable(call.amount) => ret.number = Frac(call.amount.n, call.amount.d)

\* convert(2.5, "usd", from_currency="usd") on a client of another base
\* returned 2.5
C14_Witness ==
    /\ PivotToPivot
    /\ base_currency = "eur"
    /\ call.amount = JFloat(5, 2)
    /\ ret.outcome = "return"
    /\ ret.number = <<5, 2>>

\* C15: convert on a snapshot that lacks the lowercased from-code raises
\* ExchangeRateAPIError naming the from-code (also when the to-code is
\* absent too), on one that holds the from-code and lacks the to-code it
\* raises naming the to-code, and in both cases it returns no number.
C15_UnknownCode ==
    (/\ call.op = "convert"
     /\ lookups # <<>>
     /\ lookups[1].outcome = "return") =>
        /\ FromCode(call) \notin DOMAIN lookups[1].rates =>
              /\ ret.outcome = "raise"
              /\ ret.error = Error("ExchangeRateAPIError",
                                   <<"Unknown from_currency code:", FromCode(call)>>)
              /\ ret.number = <<0, 1>>
        /\ (/\ FromCode(call) \in DOMAIN lookups[1].rates
            /\ ToCode(call) \notin DOMAIN lookups[1].rates) =>
              /\ ret.outcome = "raise"
              /\ ret.error = Error("ExchangeRateAPIError",
                                   <<"Unknown to_currency code:", ToCode(call)>>)
              /\ ret.number = <<0, 1>>
        /\ ret.outcome = "raise" =>
              \/ FromCode(call) \notin DOMAIN lookups[1].rates
              \/ ToCode(call) \notin DOMAIN lookups[1].rates

\* both codes are absent from the snapshot and the from-code is named
C15_Witness ==
    /\ call.op = "convert"
    /\ call.from_currency = "ZZZ"
    /\ call.to_currency = "cad"
    /\ lookups # <<>>
    /\ lookups[1].outcome = "return"
    /\ "cad" \notin DOMAIN lookups[1].rates
    /\ ret.error.msg = <<"Unknown from_currency code:", "zzz">>

\* the last call was get_historical_rates and failed on a day, the last one
\* it called _get_rates_for for
FailedOnDay ==
    /\ call.op = "get_historical_rates"
    /\ ret.outcome = "raise"
    /\ lookups # <<>>
\* the step repeats the call that failed on a day
Repeat == IsCall /\ FailedOnDay /\ call' = call
\* the days before the failing day are in the cache after the call, and a
\* repeat of the call requests no URL of theirs
EarlierDaysKept ==
    /\ (IsCall /\ call'.op = "get_historical_rates" /\ ret'.outcome = "raise") =>
          \A i \in 1..(Len(lookups') - 1) :
              /\ lookups'[i].key \in DOMAIN _cache'
              /\ _cache'[lookups'[i].key] = lookups'[i].rates
    /\ Repeat =>
          \A i \in 1..(Len(lookups) - 1) : RequestsFor(reqs', lookups[i].key) = <<>>

\* C16 as claimed: a get_historical_rates call that fails on day d leaves
\* the snapshots of the days before d in the cache, and a repeat of the call
\* requests no URL of the days before d and goes to the network at day d.
C16_AsClaimed ==
    [][/\ EarlierDaysKept
       /\ Repeat =>
            /\ reqs' # <<>>
            /\ UrlKey(reqs'[1]) = lookups[Len(lookups)].key]_vars

\* C16, amended: the same, the repeat going to the network at day d when the
\* snapshot of day d was not retrieved; when day d failed on an unknown
\* symbol its snapshot is cached too, and the repeat requests no URL at all
\* and fails on day d again.
C16_PartialCacheKept ==
    [][/\ EarlierDaysKept
       /\ (Repeat /\ lookups[Len(lookups)].outcome = "raise") =>
            /\ reqs' # <<>>
            /\ reqs'[1] = UrlOf(PrimaryHost, lookups[Len(lookups)].key)
       /\ (Repeat /\ lookups[Len(lookups)].outcome = "return") =>
            /\ reqs' = <<>>
            /\ ret' = ret
            /\ lookups' = lookups]_vars

\* the repeat of a call that failed on its second day after fetching the
\* first: it requested URLs of the second day only
C16_Witness ==
    /\ nops = 2
    /\ FailedOnDay
    /\ Len(lookups) = 2
    /\ lookups[1].key \in DOMAIN origin
    /\ origin[lookups[1].key].op = "get_historical_rates"
    /\ fetches[lookups[1].key] = 1
    /\ reqs # <<>>
    /\ \A j \in 1..Len(reqs) : UrlKey(reqs[j]) = lookups[2].key

\* the lowercased codes a call c of get_rates asks for
AskedOf(c) == {Lower(x) : x \in Range(c.symbols.items)}
\* the call c, ended as r after the calls lk of _get_rates_for, failed on an
\* unknown currency: its snapshot was retrieved and it raised
UnknownCurrencyFailure(c, r, lk) ==
    /\ c.op \in {"get_rates", "convert"}
    /\ r.outcome = "raise"
    /\ lk # <<>>
    /\ lk[1].outcome = "return"
\* the codes of the call c are all in the snapshot rates
ValidCodes(c, rates) ==
    CASE c.op = "get_rates" -> AskedOf(c) \subseteq DOMAIN rates
      [] c.op = "convert" ->
            /\ Lower(IF c.from_currency = None THEN base_currency ELSE c.from_currency)
                  \in DOMAIN rates
            /\ Lower(c.to_currency) \in DOMAIN rates
      [] OTHER -> FALSE

\* C17: when get_rates fails on a missing symbol or convert on an unknown
\* code, the snapshot the call retrieved is in the cache after it, and a
\* following get_rates or convert for the same (date, base) with codes of
\* the snapshot requests no URL and returns.
C17_SnapshotKept ==
    [][/\ (IsCall /\ UnknownCurrencyFailure(call', ret', lookups')) =>
            /\ ret'.error.type = "ExchangeRateAPIError"
            /\ lookups'[1].key \in DOMAIN _cache'
            /\ _cache'[lookups'[1].key] = lookups'[1].rates
       /\ (/\ IsCall
           /\ UnknownCurrencyFailure(call, ret, lookups)
           /\ lookups' # <<>>
           /\ lookups'[1].key = lookups[1].key
           /\ ValidCodes(call', lookups[1].rates)) =>
            /\ reqs' = <<>>
            /\ ret'.outcome = "return"
            /\ lookups'[1].rates = lookups[1].rates]_vars

\* convert returned from the cache after a get_rates that failed on unknown
\* symbols had fetched the snapshot
C17_Witness ==
    /\ nops = 2
    /\ call.op = "convert"
    /\ ret.outcome = "return"
    /\ reqs = <<>>
    /\ origin[lookups[1].key].op = "get_rates"
    /\ origin[lookups[1].key].outcome = "raise"
    /\ origin[lookups[1].key].count = 1

\* the cache key of a call c that reads one snapshot: the date token, with
\* "latest" for none, and "usd" for convert and available_currencies, the
\* lowercase base or the client's for get_rates
SharedKey(c) ==
    <<IF c.date = None THEN "latest" ELSE c.date,
      IF c.op \in {"convert", "available_currencies"} THEN "usd"
      ELSE CASE c.base \in {"usd", "USD", "Usd"} -> "usd"
             [] c.base \in {"eur", "EUR", "Eur"} -> "eur"
             [] c.base = None -> base_currency>>

\* C18: get_rates, convert and available_currencies read one cache keyed by
\* (date token, lowercase base): get_rates with its base in any letter case
\* or omitted and its date omitted or "latest", convert and
\* available_currencies with base "usd"; a call whose key is cached,
\* whichever method fetched it, requests no URL.
C18_SharedCache ==
    [][(/\ IsCall
        /\ call'.op \in {"get_rates", "convert", "available_currencies"}
        /\ lookups' # <<>>) =>
            /\ Len(lookups') = 1
            /\ lookups'[1].key = SharedKey(call')
            /\ SharedKey(call') \in DOMAIN _cache =>
                  /\ reqs' = <<>>
                  /\ ret'.outcome = "return"
                  /\ lookups'[1].rates = _cache[SharedKey(call')]
            /\ \A j \in 1..Len(reqs') : UrlKey(reqs'[j]) = SharedKey(call')]_vars

\* get_rates(base="Usd", date="latest") on a client of base eur was served
\* the snapshot that convert, called without a date, had fetched
C18_Witness ==
    /\ nops = 2
    /\ base_currency = "eur"
    /\ call.op = "get_rates"
    /\ call.base = "Usd"
    /\ call.date = "latest"
    /\ reqs = <<>>
    /\ ret.outcome = "return"
    /\ origin[<<"latest", "usd">>].op = "convert"
    /\ DOMAIN ret.rates = DOMAIN _cache[<<"latest", "usd">>]

====
